---- MODULE Spec2Model ----
(***************************************************************************)
(* SCOTUS justice concurrence matrix.                                      *)
(*                                                                         *)
(* Spec     the aggregation engine of scotus/app.js (filterCases,          *)
(*          getAllJusticesInRange, getActiveJustices, calculateConcurrence,*)
(*          renderMatrix) over a dataset of the shape that                 *)
(*          scripts/preprocess.js writes.                                  *)
(* SpecPre  scripts/preprocess.js from the parsed rows of its two sources  *)
(*          to the dataset it writes: the rows are combined, folded one    *)
(*          by one by processData, and the output is built and sorted.     *)
(* SpecCsv  parseCSV of scripts/preprocess.js, one line at a time.         *)
(* SpecMain scripts/preprocess.js from the checks of its two paths: the    *)
(*          checks, the two reads, then the steps of SpecPre.              *)
(* SpecUi   the page of scotus/app.js: the asynchronous load and the       *)
(*          handlers of the sliders, the dropdown, the two buttons, the    *)
(*          threshold field and the window's resize, in any order.         *)
(*                                                                         *)
(* Strings that the code inspects character by character (justice          *)
(* identifiers, display names, CSV text and fields) are sequences of       *)
(* one-character strings.  A rate (agreed / total) is the exact fraction   *)
(* [num, den]; rates are compared by cross multiplication.                 *)
(***************************************************************************)
EXTENDS Integers, Sequences, FiniteSets, TLC

VARIABLES
    data,              \* the loaded dataset (app.js:460, set at :513)
    yearStart,         \* app.js:461
    yearEnd,           \* app.js:462
    selectedJustices,  \* app.js:463: AllJustices (null) or a set of ids
    minCases,          \* app.js:464
    dropdownOptions,   \* ids listed in the dropdown, in order (app.js:586-625)
    justices,          \* active justices of the last render (matrix axes)
    matrix,            \* matrix of the last render
    colorScale,        \* <<min, max>> of the colour scale domain (app.js:496, :826)
    matrixEl,          \* what the matrix element shows: "blank", "message", "svg"
    pc,                \* where scripts/preprocess.js is
    legacyRows,        \* preprocess.js:399
    modernRows,        \* preprocess.js:404
    allRows,           \* preprocess.js:409
    rowIndex,          \* the row that the loop of processData is at (preprocess.js:328)
    casesMap,          \* the Map cases of processData, in insertion order
    justicesMap,       \* the Map justices of processData
    output,            \* the dataset written (preprocess.js:418-450)
    content,           \* the argument of parseCSV
    lines,             \* preprocess.js:269
    headers,           \* preprocess.js:272
    lineIndex,         \* the i of the loop of parseCSV (preprocess.js:275)
    rows,              \* the rows of parseCSV (preprocess.js:273)
    legacyExists,      \* fs.existsSync(legacyCsvPath) (preprocess.js:389)
    modernExists,      \* fs.existsSync(modernCsvPath) (preprocess.js:393)
    exitCode,          \* the exit status of the script, NotExited while it runs
    loadState,         \* loadData: "loading", "loaded" or "failed" (app.js:507-537)
    yearStartSlider,   \* yearStartSlider.value (app.js:470)
    yearEndSlider,     \* yearEndSlider.value (app.js:471)
    uncaught,          \* the last handler ended in the TypeError of data.cases on null
    lastEvent,         \* the handler that ran last, "none" before the first
    userSelection      \* the selection as the dropdown or a button last left it

appVars == <<data, yearStart, yearEnd, selectedJustices, minCases,
             dropdownOptions, justices, matrix, colorScale, matrixEl>>
preVars == <<legacyRows, modernRows, allRows, rowIndex, casesMap, justicesMap, output>>
csvVars == <<content, lines, headers, lineIndex, rows>>

fsVars == <<legacyExists, modernExists, exitCode>>
uiVars == <<loadState, yearStartSlider, yearEndSlider, uncaught, lastEvent, userSelection>>

vars == <<appVars, pc, preVars, csvVars, fsVars, uiVars>>

----------------------------------------------------------------------------
(* Bounds of the model *)

MaxCases == 2        \* cases in a dataset
MaxMinCases == 2     \* largest value of the minimum-cases threshold

(* Program constants *)

DefaultYearStart == 2005

----------------------------------------------------------------------------
(* Characters and strings *)

LowerLetters == <<"a","b","c","d","e","f","g","h","i","j","k","l","m",
                  "n","o","p","q","r","s","t","u","v","w","x","y","z">>
UpperLetters == <<"A","B","C","D","E","F","G","H","I","J","K","L","M",
                  "N","O","P","Q","R","S","T","U","V","W","X","Y","Z">>
Digits == <<"0","1","2","3","4","5","6","7","8","9">>
\* whitespace and punctuation sort before digits, digits before letters
Punctuation == <<" ", ".", "(", ")">>

IndexOf(seq, x) == CHOOSE k \in 1..Len(seq) : seq[k] = x
InSeq(seq, x) == \E k \in 1..Len(seq) : seq[k] = x

IsUpper(ch) == InSeq(UpperLetters, ch)
IsLower(ch) == InSeq(LowerLetters, ch)
IsDigit(ch) == InSeq(Digits, ch)

\* primary collation weight of a character: letters compare without case
PrimaryWeight(ch) ==
    IF InSeq(Punctuation, ch) THEN IndexOf(Punctuation, ch)
    ELSE IF IsDigit(ch) THEN 10 + IndexOf(Digits, ch)
    ELSE IF IsLower(ch) THEN 100 + IndexOf(LowerLetters, ch)
    ELSE 100 + IndexOf(UpperLetters, ch)

\* tertiary weight: a lower-case letter sorts before its upper-case form
CaseWeight(ch) == IF IsUpper(ch) THEN 1 ELSE 0

PrimaryWeights(s) == [k \in 1..Len(s) |-> PrimaryWeight(s[k])]
CaseWeights(s) == [k \in 1..Len(s) |-> CaseWeight(s[k])]

\* lexical comparison of two sequences of weights, from position k on
RECURSIVE CompareWeights(_, _, _)
CompareWeights(x, y, k) ==
    IF k > Len(x) /\ k > Len(y) THEN 0
    ELSE IF k > Len(x) THEN -1
    ELSE IF k > Len(y) THEN 1
    ELSE IF x[k] < y[k] THEN -1
    ELSE IF x[k] > y[k] THEN 1
    ELSE CompareWeights(x, y, k + 1)

\* String.prototype.localeCompare: negative, zero or positive
localeCompare(a, b) ==
    LET primary == CompareWeights(PrimaryWeights(a), PrimaryWeights(b), 1)
    IN  IF primary # 0 THEN primary
        ELSE CompareWeights(CaseWeights(a), CaseWeights(b), 1)

----------------------------------------------------------------------------
(* Display name of a justice identifier (preprocess.js formatJusticeName):  *)
(* /^([A-Z]+)([A-Z][a-z]+)(\d?)$/                                           *)

RECURSIVE UpperPrefixLen(_, _)
UpperPrefixLen(s, k) ==
    IF k <= Len(s) /\ IsUpper(s[k]) THEN UpperPrefixLen(s, k + 1) ELSE k - 1

RECURSIVE JoinWithDots(_)
JoinWithDots(initials) ==
    IF initials = <<>> THEN <<>>
    ELSE <<Head(initials), ".">> \o JoinWithDots(Tail(initials))

formatJusticeName(justiceName) ==
    LET n      == Len(justiceName)
        digit  == IF n >= 1 /\ IsDigit(justiceName[n]) THEN <<justiceName[n]>> ELSE <<>>
        body   == SubSeq(justiceName, 1, n - Len(digit))
        u      == UpperPrefixLen(body, 1)
        match  == /\ u >= 2
                  /\ Len(body) > u
                  /\ \A k \in (u + 1)..Len(body) : IsLower(body[k])
        initials == SubSeq(body, 1, u - 1)
        lastName == SubSeq(body, u, Len(body))
        suffix   == IF digit = <<>> THEN <<>>
                    ELSE IF digit = <<"1">> THEN <<" ", "(", "I", ")">>
                    ELSE <<" ", "(", "I", "I", ")">>
    IN  IF match
        THEN JoinWithDots(initials) \o <<" ">> \o lastName \o suffix
        ELSE justiceName

----------------------------------------------------------------------------
(* Datasets *)

WBRu == <<"W", "B", "R", "u">>
WBu  == <<"W", "B", "u">>
JHa2 == <<"J", "H", "a", "2">>

\* the justice identifiers of the model, in the order their keys are inserted
JusticeIds == <<WBu, JHa2, WBRu>>
Justices == {JusticeIds[k] : k \in 1..Len(JusticeIds)}

\* the terms of the model: the term before the default start, and the default start
Terms == {DefaultYearStart - 1, DefaultYearStart}
Codes == {1, 2}       \* majority = 1 (with the majority), 2 (dissent)

\* Object.keys(votes): the keys in insertion order
ObjectKeys(votes) == SelectSeq(JusticeIds, LAMBDA j : j \in DOMAIN votes)

\* c.votes: an object from justice id to code. The votes of the model are
\* those of a bench of two or more justices whose first voter is with the
\* majority: the engine reads a code only to compare it with another code of
\* the same case, and every pattern of agreement of such a bench is here.
VoteMaps ==
    { v \in UNION {[S -> Codes] : S \in SUBSET Justices} :
        /\ Cardinality(DOMAIN v) >= 2
        /\ v[Head(ObjectKeys(v))] = 1 }

\* output.cases: up to MaxCases cases in ascending order of term
CaseLists ==
    UNION { {[k \in 1..n |-> [id |-> k, term |-> ts[k], votes |-> vs[k]]] :
                ts \in {t \in [1..n -> Terms] :
                            \A k \in 1..(n - 1) : t[k] <= t[k + 1]},
                vs \in [1..n -> VoteMaps]}
            : n \in 0..MaxCases }

VotersOf(cases) == UNION {DOMAIN cases[k].votes : k \in 1..Len(cases)}

SetMin(S) == CHOOSE x \in S : \A y \in S : x <= y
SetMax(S) == CHOOSE x \in S : \A y \in S : x >= y

\* name: formatJusticeName(justiceName)
DisplayName == [j \in Justices |-> formatJusticeName(j)]

\* the term of the earliest case a justice votes in
FirstTermIn(cs, j) ==
    SetMin({cs[k].term : k \in {i \in 1..Len(cs) : j \in DOMAIN cs[i].votes}})

\* the dataset preprocess.js writes for the cases cs when the rows of a case
\* carry the case's term: a justices entry for exactly the justices that
\* vote, with the derived display name and the term of the first vote
DatasetOf(cs) ==
    [cases    |-> cs,
     justices |-> [j \in VotersOf(cs) |->
                      [name |-> DisplayName[j], firstTerm |-> FirstTermIn(cs, j)]],
     metadata |-> [minTerm |-> SetMin({cs[k].term : k \in 1..Len(cs)}),
                   maxTerm |-> SetMax({cs[k].term : k \in 1..Len(cs)})]]

\* the datasets of the model, each with at least one case
Datasets == {DatasetOf(cs) : cs \in CaseLists \ {<<>>}}

----------------------------------------------------------------------------
(* Rates *)

Rate(num, den) == [num |-> num, den |-> den]
RateLess(r, s) == r.num * s.den < s.num * r.den
RateEq(r, s)   == r.num * s.den = s.num * r.den
RateLeq(r, s)  == r.num * s.den <= s.num * r.den
MathMin(r, s)  == IF RateLess(s, r) THEN s ELSE r
MathMax(r, s)  == IF RateLess(r, s) THEN s ELSE r

\* the null rate of a cell without cases: no fraction has denominator 0
Null == [num |-> 0, den |-> 0]
\* selectedJustices: null (all justices) or a Set of justice ids
AllJustices == [isNull |-> TRUE, ids |-> {}]
SetOf(S) == [isNull |-> FALSE, ids |-> S]

----------------------------------------------------------------------------
(* The aggregation engine (app.js) *)

\* variant: the end of the window is exclusive
filterCasesExclusiveEnd(d, ys, ye) ==
    SelectSeq(d.cases, LAMBDA c : c.term >= ys /\ c.term < ye)

\* cases.filter(c => c.term >= yearStart && c.term <= yearEnd)
filterCases(d, ys, ye) ==
    SelectSeq(d.cases, LAMBDA c : c.term >= ys /\ c.term <= ye)

\* data.justices[a]?.firstTerm || 0
FirstTermOf(d, a) ==
    IF a \in DOMAIN d.justices THEN d.justices[a].firstTerm ELSE 0

\* a.localeCompare(b) for the justice ids of the model
IdCompare == [a \in Justices, b \in Justices |-> localeCompare(a, b)]

\* the comparator of the sort at app.js:558
CompareJustices(d, a, b) ==
    LET aFirst == FirstTermOf(d, a)
        bFirst == FirstTermOf(d, b)
    IN  IF aFirst # bFirst THEN aFirst - bFirst ELSE IdCompare[a, b]

\* Array.prototype.sort under a comparator that orders distinct elements strictly
RECURSIVE SortJustices(_, _)
SortJustices(d, S) ==
    IF S = {} THEN <<>>
    ELSE LET least == CHOOSE a \in S :
                        \A b \in S \ {a} : CompareJustices(d, a, b) < 0
         IN  <<least>> \o SortJustices(d, S \ {least})

\* variant: the justices of every case of the dataset
getAllJusticesInData(d, cases) ==
    SortJustices(d, VotersOf(d.cases))

getAllJusticesInRange(d, cases) ==
    SortJustices(d, VotersOf(cases))

\* variant: the selection is not applied
getActiveJusticesUnfiltered(d, cases, sel) ==
    getAllJusticesInRange(d, cases)

getActiveJustices(d, cases, sel) ==
    LET allJustices == getAllJusticesInRange(d, cases)
    IN  IF sel = AllJustices THEN allJustices
        ELSE SelectSeq(allJustices, LAMBDA j : j \in sel.ids)

\* variant: only the cell (ji, jj) is written, not its mirror
CountPairOneSided(m, c, idx, vi, vj) ==
    LET ji == idx[vi]
        jj == idx[vj]
        m1 == [m EXCEPT ![ji][jj].total = @ + 1]
    IN  IF c.votes[vi] = c.votes[vj]
        THEN [m1 EXCEPT ![ji][jj].agreed = @ + 1]
        ELSE m1

\* the body of the double loop at app.js:741-754, for voters i and j of case c
CountPair(m, c, idx, vi, vj) ==
    LET ji == idx[vi]
        jj == idx[vj]
        m1 == [m  EXCEPT ![ji][jj].total = @ + 1]
        m2 == [m1 EXCEPT ![jj][ji].total = @ + 1]
    IN  IF c.votes[vi] = c.votes[vj]
        THEN LET m3 == [m2 EXCEPT ![ji][jj].agreed = @ + 1]
             IN  [m3 EXCEPT ![jj][ji].agreed = @ + 1]
        ELSE m2

\* the first value of j in the inner loop (app.js:740)
InnerStart(i) == i

RECURSIVE CountVoters(_, _, _, _, _, _)
CountVoters(m, c, idx, voters, i, j) ==
    IF i > Len(voters) THEN m
    ELSE IF j > Len(voters) THEN CountVoters(m, c, idx, voters, i + 1, InnerStart(i + 1))
    ELSE CountVoters(CountPair(m, c, idx, voters[i], voters[j]),
                     c, idx, voters, i, j + 1)

\* variant: a case counts only when its whole bench is active
VotersOfFullBench(c, idx) ==
    IF DOMAIN c.votes \subseteq DOMAIN idx THEN ObjectKeys(c.votes) ELSE <<>>

\* Object.keys(c.votes).filter(j => justiceIndex.has(j))
Voters(c, idx) ==
    SelectSeq(ObjectKeys(c.votes), LAMBDA j : j \in DOMAIN idx)

RECURSIVE CountCases(_, _, _, _)
CountCases(m, cases, idx, k) ==
    IF k > Len(cases) THEN m
    ELSE CountCases(CountVoters(m, cases[k], idx, Voters(cases[k], idx),
                                1, InnerStart(1)),
                    cases, idx, k + 1)

\* variant: a cell without cases gets the rate 0
CellRateZero(cell) ==
    IF cell.total > 0 THEN Rate(cell.agreed, cell.total) ELSE Rate(0, 1)

\* cell.rate = cell.total > 0 ? cell.agreed / cell.total : null
CellRate(cell) == IF cell.total > 0 THEN Rate(cell.agreed, cell.total) ELSE Null

calculateConcurrence(cases, js) ==
    LET n == Len(js)
        justiceIndex == [j \in {js[k] : k \in 1..n} |-> IndexOf(js, j)]
        zero == [i \in 1..n |-> [j \in 1..n |-> [agreed |-> 0, total |-> 0]]]
        counted == CountCases(zero, cases, justiceIndex, 1)
    IN  [i \in 1..n |-> [j \in 1..n |->
            [agreed |-> counted[i][j].agreed,
             total  |-> counted[i][j].total,
             rate   |-> CellRate(counted[i][j])]]]

\* variant: the diagonal is not left out
InScaleWithDiagonal(m, i, j, mc) ==
    m[i][j].rate # Null /\ m[i][j].total >= mc

\* the condition of app.js:817
InScale(m, i, j, mc) ==
    i # j /\ m[i][j].rate # Null /\ m[i][j].total >= mc

\* the loop of app.js:814-822 over the cells in row-major order; range = <<minRate, maxRate>>
RECURSIVE ScanScale(_, _, _, _, _)
ScanScale(m, n, mc, k, range) ==
    IF k >= n * n THEN range
    ELSE LET i == (k \div n) + 1
             j == (k % n) + 1
         IN  ScanScale(m, n, mc, k + 1,
                       IF InScale(m, i, j, mc)
                       THEN <<MathMin(range[1], m[i][j].rate),
                              MathMax(range[2], m[i][j].rate)>>
                       ELSE range)

InitialRange == <<Rate(1, 1), Rate(0, 1)>>     \* let minRate = 1, maxRate = 0

\* justices.length === 0 (the early return of app.js:807)
NothingToShow(js) == Len(js) = 0

\* renderMatrix: the values of the render's outputs for the given state
renderMatrix(d, ys, ye, sel, mc, oldScale) ==
    LET cases == filterCases(d, ys, ye)
        js    == getActiveJustices(d, cases, sel)
        m     == calculateConcurrence(cases, js)
    IN  [dropdownOptions |-> getAllJusticesInRange(d, cases),
         justices        |-> js,
         matrix          |-> m,
         colorScale      |-> IF NothingToShow(js) THEN oldScale
                             ELSE ScanScale(m, Len(js), mc, 0, InitialRange),
         matrixEl        |-> IF NothingToShow(js) THEN "message" ELSE "svg"]

\* one call of renderMatrix: its outputs become the state
Render(d, ys, ye, sel, mc) ==
    \E r \in {renderMatrix(d, ys, ye, sel, mc, colorScale)} :
        /\ dropdownOptions' = r.dropdownOptions
        /\ justices' = r.justices
        /\ matrix' = r.matrix
        /\ colorScale' = r.colorScale
        /\ matrixEl' = r.matrixEl

----------------------------------------------------------------------------
(* The engine as a function of (dataset, filter): the initial states are   *)
(* every dataset and filter of the bounds with nothing rendered yet, and   *)
(* the step is one call of renderMatrix.                                   *)

Selections == {AllJustices} \cup {SetOf(S) : S \in SUBSET Justices}

DefaultScale == <<Rate(0, 1), Rate(1, 1)>>     \* .domain([0, 0.5, 1])

\* exitCode while the script has not exited
NotExited == -1

\* scripts/preprocess.js is a script of its own: it does not run in the page
ScriptIdle ==
    /\ pc = "idle"
    /\ legacyRows = <<>> /\ modernRows = <<>> /\ allRows = <<>>
    /\ rowIndex = 1 /\ casesMap = <<>> /\ justicesMap = <<>> /\ output = <<>>
    /\ content = <<>> /\ lines = <<>> /\ headers = <<>>
    /\ lineIndex = 1 /\ rows = <<>>
    /\ legacyExists = TRUE /\ modernExists = TRUE /\ exitCode = NotExited

\* the page has loaded the dataset and no handler has run; the sliders show
\* the window
PageLoaded ==
    /\ loadState = "loaded"
    /\ yearStartSlider = yearStart
    /\ yearEndSlider = yearEnd
    /\ uncaught = FALSE
    /\ lastEvent = "none"
    /\ userSelection = selectedJustices

Init ==
    /\ data \in Datasets
    /\ yearStart \in Terms
    /\ yearEnd \in Terms
    /\ selectedJustices \in Selections
    /\ minCases \in 1..MaxMinCases
    /\ dropdownOptions = <<>>
    /\ justices = <<>>
    /\ matrix = <<>>
    /\ colorScale = DefaultScale
    /\ matrixEl = "blank"
    /\ PageLoaded
    /\ ScriptIdle

\* variant: the window is cut out of the dataset itself
\* (data.cases = data.cases.filter(...))
DataFilteredInPlace(d, ys, ye) == [d EXCEPT !.cases = filterCases(d, ys, ye)]

\* the dataset after a render.  No statement of the engine assigns to data or
\* to an object reachable from it: filterCases uses Array.prototype.filter,
\* which returns a new array (app.js:543); getAllJusticesInRange sorts the
\* array it made from its own Set (app.js:558); getActiveJustices filters
\* that array (app.js:690); calculateConcurrence writes only the cells of
\* the matrix it allocated (app.js:724-733, 746-752, 761) and reads votes.
DataAfterRender(d, ys, ye) == d

RenderMatrix ==
    /\ matrixEl = "blank"
    /\ Render(data, yearStart, yearEnd, selectedJustices, minCases)
    /\ data' = DataAfterRender(data, yearStart, yearEnd)
    /\ UNCHANGED <<yearStart, yearEnd, selectedJustices, minCases>>
    /\ UNCHANGED <<pc, preVars, csvVars, fsVars, uiVars>>

Next == RenderMatrix

Spec == Init /\ [][Next]_vars

----------------------------------------------------------------------------
(* scripts/preprocess.js: the rows of the two sources *)

MaxRows == 2       \* rows of the two sources together

\* a number or NaN
NaN == [nan |-> TRUE, val |-> 0]
Num(n) == [nan |-> FALSE, val |-> n]
isNaN(x) == x.nan

DigitValue(ch) == IndexOf(Digits, ch) - 1

\* the position of the last character of the run of digits that starts at k
RECURSIVE DigitsPrefixEnd(_, _)
DigitsPrefixEnd(s, k) ==
    IF k <= Len(s) /\ IsDigit(s[k]) THEN DigitsPrefixEnd(s, k + 1) ELSE k - 1

RECURSIVE DecimalValue(_)
DecimalValue(ds) ==
    IF ds = <<>> THEN 0
    ELSE 10 * DecimalValue(SubSeq(ds, 1, Len(ds) - 1)) + DigitValue(ds[Len(ds)])

\* parseInt(s, 10) of a field without surrounding whitespace: an optional
\* sign, then the longest run of digits; what follows the digits is ignored;
\* NaN when there is no digit
parseInt(s) ==
    LET signed == Len(s) >= 1 /\ s[1] \in {"+", "-"}
        from   == IF signed THEN 2 ELSE 1
        to     == DigitsPrefixEnd(s, from)
        magnitude == DecimalValue(SubSeq(s, from, to))
    IN  IF to < from THEN NaN
        ELSE Num(IF signed /\ s[1] = "-" THEN 0 - magnitude ELSE magnitude)

\* a row of parseCSV with the four columns that processData reads
Row(c, t, j, m) == [caseId |-> c, term |-> t, justiceName |-> j, majority |-> m]

CaseIds == {<<"c", "1">>, <<"c", "2">>}
TermFields == {<<"2", "0", "0", "4">>, <<"2", "0", "0", "5">>}
RowJustices == {WBu, WBRu}
MajorityFields == {<<"1">>, <<"2">>}

\* rows of which every field is as the data dictionary has it
PlainRows ==
    {Row(c, t, j, m) : c \in CaseIds, t \in TermFields,
                       j \in RowJustices, m \in MajorityFields}

\* rows with one field that is empty or not as the data dictionary has it
OddRows ==
    LET c == <<"c", "1">>
        t == <<"2", "0", "0", "4">>
    IN       {Row(<<>>, t, WBu, <<"1">>), Row(c, t, <<>>, <<"1">>)}
       \cup {Row(c, x, WBu, <<"1">>) :
                x \in {<<>>, <<"x">>, <<"2", "0", "0", "5", ".", "5">>}}
       \cup {Row(c, t, WBu, x) :
                x \in {<<>>, <<"9">>, <<"1", "x">>, <<"2", ".", "5">>}}

RowPool == PlainRows \cup OddRows
RowSeqs == UNION {[1..n -> RowPool] : n \in 0..MaxRows}

----------------------------------------------------------------------------
(* scripts/preprocess.js: processData *)

\* the first test of the loop (preprocess.js:335)
MissingField(caseId, term, justiceName, majority) ==
    caseId = <<>> \/ isNaN(term) \/ justiceName = <<>> \/ isNaN(majority)

\* the second test of the loop (preprocess.js:340), for a majority that is a number
NoVote(majority) == majority.val \notin {1, 2}

Skipped(caseId, term, justiceName, majority) ==
    MissingField(caseId, term, justiceName, majority) \/ NoVote(majority)

HasCase(cases, caseId) == \E k \in 1..Len(cases) : cases[k].id = caseId

\* variant: a later row of the case sets the term of the case again
UpsertCaseLatestTerm(cases, caseId, term) ==
    IF HasCase(cases, caseId)
    THEN [k \in 1..Len(cases) |->
            IF cases[k].id = caseId THEN [cases[k] EXCEPT !.term = term] ELSE cases[k]]
    ELSE Append(cases, [id |-> caseId, term |-> term, votes |-> <<>>])

\* if (!cases.has(caseId)) cases.set(caseId, { term, votes: {} })
UpsertCase(cases, caseId, term) ==
    IF HasCase(cases, caseId) THEN cases
    ELSE Append(cases, [id |-> caseId, term |-> term, votes |-> <<>>])

\* obj[key] = value
Assign(obj, key, value) ==
    [x \in DOMAIN obj \cup {key} |-> IF x = key THEN value ELSE obj[x]]

\* variant: the first vote of a justice in a case is kept
SetVoteOnce(cases, caseId, justiceName, majority) ==
    [k \in 1..Len(cases) |->
        IF cases[k].id = caseId /\ justiceName \notin DOMAIN cases[k].votes
        THEN [cases[k] EXCEPT !.votes = Assign(@, justiceName, majority)]
        ELSE cases[k]]

\* cases.get(caseId).votes[justiceName] = majority
SetVote(cases, caseId, justiceName, majority) ==
    [k \in 1..Len(cases) |->
        IF cases[k].id = caseId
        THEN [cases[k] EXCEPT !.votes = Assign(@, justiceName, majority)]
        ELSE cases[k]]

\* JUSTICE_PARTY[justiceName] || null: the table has none of the identifiers
\* of the model
Party(justiceName) == "null"

NewJustice(justiceName, term) ==
    [name      |-> formatJusticeName(justiceName),
     firstTerm |-> term,
     lastTerm  |-> term,
     party     |-> Party(justiceName)]

\* variant: only firstTerm is updated
UpsertJusticeFirstOnly(js, justiceName, term) ==
    IF justiceName \notin DOMAIN js
    THEN Assign(js, justiceName, NewJustice(justiceName, term))
    ELSE [js EXCEPT ![justiceName].firstTerm = SetMin({@, term})]

\* preprocess.js:351-362
UpsertJustice(js, justiceName, term) ==
    IF justiceName \notin DOMAIN js
    THEN Assign(js, justiceName, NewJustice(justiceName, term))
    ELSE [js EXCEPT ![justiceName].firstTerm = SetMin({@, term}),
                    ![justiceName].lastTerm  = SetMax({@, term})]

\* variant: the case is created before the row is examined
FoldCaseFirst(maps, caseId, term, justiceName, majority) ==
    IF MissingField(caseId, term, justiceName, majority) /\ (caseId = <<>> \/ isNaN(term))
    THEN maps
    ELSE IF Skipped(caseId, term, justiceName, majority)
    THEN [maps EXCEPT !.cases = UpsertCase(@, caseId, term.val)]
    ELSE [cases    |-> SetVote(UpsertCase(maps.cases, caseId, term.val),
                               caseId, justiceName, majority.val),
          justices |-> UpsertJustice(maps.justices, justiceName, term.val)]

ProcessRowCaseFirst(maps, row) ==
    FoldCaseFirst(maps, row.caseId, parseInt(row.term),
                  row.justiceName, parseInt(row.majority))

\* variant: a justice is recorded only with the first row of a case
FoldNewCasesOnly(maps, caseId, term, justiceName, majority) ==
    IF Skipped(caseId, term, justiceName, majority) THEN maps
    ELSE [cases    |-> SetVote(UpsertCase(maps.cases, caseId, term.val),
                               caseId, justiceName, majority.val),
          justices |-> IF HasCase(maps.cases, caseId) THEN maps.justices
                       ELSE UpsertJustice(maps.justices, justiceName, term.val)]

ProcessRowNewCasesOnly(maps, row) ==
    FoldNewCasesOnly(maps, row.caseId, parseInt(row.term),
                     row.justiceName, parseInt(row.majority))

\* the body of the loop of processData after the four constants are set
\* (preprocess.js:334-362); maps = [cases, justices]
Fold(maps, caseId, term, justiceName, majority) ==
    IF Skipped(caseId, term, justiceName, majority) THEN maps
    ELSE [cases    |-> SetVote(UpsertCase(maps.cases, caseId, term.val),
                               caseId, justiceName, majority.val),
          justices |-> UpsertJustice(maps.justices, justiceName, term.val)]

\* one iteration of the loop of processData (preprocess.js:328-363)
ProcessRow(maps, row) ==
    Fold(maps, row.caseId, parseInt(row.term), row.justiceName, parseInt(row.majority))

EmptyMaps == [cases |-> <<>>, justices |-> <<>>]

RECURSIVE FoldRows(_, _, _)
FoldRows(maps, rs, k) ==
    IF k > Len(rs) THEN maps ELSE FoldRows(ProcessRow(maps, rs[k]), rs, k + 1)

\* processData(rows): the maps after the loop over all the rows
processData(rs) == FoldRows(EmptyMaps, rs, 1)

----------------------------------------------------------------------------
(* scripts/preprocess.js: main *)

\* variant: the modern rows come first
CombineModernFirst(legacy, modern) == modern \o legacy

\* const allRows = [...legacyRows, ...modernRows]
Combine(legacy, modern) == legacy \o modern

\* sorted, a list in ascending order of term, with c put behind the elements
\* that do not come after it
InsertByTerm(sorted, c) ==
    LET before == {k \in 1..Len(sorted) : sorted[k].term <= c.term}
        n      == Cardinality(before)
    IN  SubSeq(sorted, 1, n) \o <<c>> \o SubSeq(sorted, n + 1, Len(sorted))

\* variant: c is put in front of the elements of its own term
InsertByTermInFront(sorted, c) ==
    LET before == {k \in 1..Len(sorted) : sorted[k].term < c.term}
        n      == Cardinality(before)
    IN  SubSeq(sorted, 1, n) \o <<c>> \o SubSeq(sorted, n + 1, Len(sorted))

RECURSIVE SortTieReversing(_)
SortTieReversing(cs) ==
    IF cs = <<>> THEN <<>>
    ELSE InsertByTermInFront(SortTieReversing(SubSeq(cs, 1, Len(cs) - 1)), cs[Len(cs)])

\* output.cases.sort((a, b) => a.term - b.term): Array.prototype.sort is
\* stable, elements that compare equal keep their order
RECURSIVE SortByTerm(_)
SortByTerm(cs) ==
    IF cs = <<>> THEN <<>>
    ELSE InsertByTerm(SortByTerm(SubSeq(cs, 1, Len(cs) - 1)), cs[Len(cs)])

\* Math.min() and Math.max() of no term are Infinity and -Infinity, which
\* JSON.stringify writes as null
NoTerm == 0

\* the object written to the output file, without generatedAt and source
BuildOutput(maps) ==
    LET sorted == SortByTerm(maps.cases)
        terms  == {sorted[k].term : k \in 1..Len(sorted)}
    IN  [cases    |-> sorted,
         justices |-> maps.justices,
         metadata |-> [minTerm       |-> IF terms = {} THEN NoTerm ELSE SetMin(terms),
                       maxTerm       |-> IF terms = {} THEN NoTerm ELSE SetMax(terms),
                       totalCases    |-> Len(sorted),
                       totalJustices |-> Cardinality(DOMAIN maps.justices)]]

\* the script from the rows of its sources to its output
Canonicalize(legacy, modern) == BuildOutput(processData(Combine(legacy, modern)))

\* the page is not part of the script: its state is as declared (app.js:460-464)
AppNotLoaded ==
    /\ data = <<>>
    /\ yearStart = 1791
    /\ yearEnd = 2024
    /\ selectedJustices = AllJustices
    /\ minCases = 1
    /\ dropdownOptions = <<>> /\ justices = <<>> /\ matrix = <<>>
    /\ colorScale = DefaultScale
    /\ matrixEl = "blank"
    /\ loadState = "loading"
    /\ yearStartSlider = 1791
    /\ yearEndSlider = 2024
    /\ uncaught = FALSE
    /\ lastEvent = "none"
    /\ userSelection = AllJustices

CsvIdle ==
    /\ content = <<>> /\ lines = <<>> /\ headers = <<>>
    /\ lineIndex = 1 /\ rows = <<>>

\* both sources have been read and parsed (preprocess.js:398-406): every
\* sequence of rows of the bounds, cut into the two sources at every place
InitPre ==
    /\ AppNotLoaded
    /\ CsvIdle
    /\ pc = "combine"
    /\ \E rs \in RowSeqs : \E cut \in 0..Len(rs) :
        /\ legacyRows = SubSeq(rs, 1, cut)
        /\ modernRows = SubSeq(rs, cut + 1, Len(rs))
    /\ allRows = <<>>
    /\ rowIndex = 1
    /\ casesMap = <<>>
    /\ justicesMap = <<>>
    /\ output = <<>>
    /\ legacyExists = TRUE
    /\ modernExists = TRUE
    /\ exitCode = NotExited

\* preprocess.js:409
CombineRows ==
    /\ pc = "combine"
    /\ allRows' = Combine(legacyRows, modernRows)
    /\ pc' = "processData"
    /\ UNCHANGED <<legacyRows, modernRows, rowIndex, casesMap, justicesMap, output>>
    /\ UNCHANGED <<appVars, csvVars, fsVars, uiVars>>

\* one iteration of for (const row of rows) (preprocess.js:328-363)
FoldRow ==
    /\ pc = "processData"
    /\ rowIndex <= Len(allRows)
    /\ \E r \in {ProcessRow([cases |-> casesMap, justices |-> justicesMap],
                            allRows[rowIndex])} :
        /\ casesMap' = r.cases
        /\ justicesMap' = r.justices
    /\ rowIndex' = rowIndex + 1
    /\ UNCHANGED <<pc, legacyRows, modernRows, allRows, output>>
    /\ UNCHANGED <<appVars, csvVars, fsVars, uiVars>>

\* the loop is over: processData returns, the output is built, sorted and
\* written (preprocess.js:365, 418-450); the report is printed and the
\* script ends (preprocess.js:451-481), which exits with status 0
WriteOutput ==
    /\ pc = "processData"
    /\ rowIndex > Len(allRows)
    /\ output' = BuildOutput([cases |-> casesMap, justices |-> justicesMap])
    /\ pc' = "done"
    /\ exitCode' = 0
    /\ UNCHANGED <<legacyRows, modernRows, allRows, rowIndex, casesMap, justicesMap>>
    /\ UNCHANGED <<legacyExists, modernExists>>
    /\ UNCHANGED <<appVars, csvVars, uiVars>>

NextPre == CombineRows \/ FoldRow \/ WriteOutput

SpecPre == InitPre /\ [][NextPre]_vars

----------------------------------------------------------------------------
(* scripts/preprocess.js: the script from the checks of its two paths *)

\* variant: the path is not checked
MissingNever(exists) == FALSE

\* !fs.existsSync(path) (preprocess.js:389, 393)
Missing(exists) == ~exists

\* the output file that an earlier run of the script has left
PreviousOutput ==
    Canonicalize(<<Row(<<"c", "1">>, <<"2", "0", "0", "4">>, WBu, <<"1">>),
                   Row(<<"c", "1">>, <<"2", "0", "0", "4">>, WBRu, <<"2">>)>>, <<>>)

\* the script is started with two paths (preprocess.js:239-265): each path
\* exists or not, and the output file exists from an earlier run or not
InitMain ==
    /\ AppNotLoaded
    /\ CsvIdle
    /\ pc = "checkLegacy"
    /\ legacyExists \in BOOLEAN
    /\ modernExists \in BOOLEAN
    /\ exitCode = NotExited
    /\ output = <<>> \/ output = PreviousOutput
    /\ legacyRows = <<>> /\ modernRows = <<>> /\ allRows = <<>>
    /\ rowIndex = 1
    /\ casesMap = <<>>
    /\ justicesMap = <<>>

\* preprocess.js:389-392
CheckLegacy ==
    /\ pc = "checkLegacy"
    /\ IF Missing(legacyExists)
       THEN pc' = "exited" /\ exitCode' = 1
       ELSE pc' = "checkModern" /\ exitCode' = exitCode
    /\ UNCHANGED <<preVars, legacyExists, modernExists>>
    /\ UNCHANGED <<appVars, csvVars, uiVars>>

\* preprocess.js:393-396
CheckModern ==
    /\ pc = "checkModern"
    /\ IF Missing(modernExists)
       THEN pc' = "exited" /\ exitCode' = 1
       ELSE pc' = "readLegacy" /\ exitCode' = exitCode
    /\ UNCHANGED <<preVars, legacyExists, modernExists>>
    /\ UNCHANGED <<appVars, csvVars, uiVars>>

\* preprocess.js:399-400: the rows that parseCSV makes of the legacy file.
\* readFileSync of a path that does not exist throws, and the uncaught
\* exception ends the script with status 1.
ReadLegacy ==
    /\ pc = "readLegacy"
    /\ IF legacyExists
       THEN /\ \E rs \in RowSeqs : legacyRows' = rs
            /\ pc' = "readModern"
            /\ exitCode' = exitCode
       ELSE /\ legacyRows' = legacyRows
            /\ pc' = "exited"
            /\ exitCode' = 1
    /\ UNCHANGED <<modernRows, allRows, rowIndex, casesMap, justicesMap, output>>
    /\ UNCHANGED <<legacyExists, modernExists>>
    /\ UNCHANGED <<appVars, csvVars, uiVars>>

\* preprocess.js:404-405: the rows of the modern file, as many as the bound
\* on the rows of the two sources leaves
ReadModern ==
    /\ pc = "readModern"
    /\ IF modernExists
       THEN /\ \E n \in 0..(MaxRows - Len(legacyRows)) :
                \E rs \in [1..n -> RowPool] : modernRows' = rs
            /\ pc' = "combine"
            /\ exitCode' = exitCode
       ELSE /\ modernRows' = modernRows
            /\ pc' = "exited"
            /\ exitCode' = 1
    /\ UNCHANGED <<legacyRows, allRows, rowIndex, casesMap, justicesMap, output>>
    /\ UNCHANGED <<legacyExists, modernExists>>
    /\ UNCHANGED <<appVars, csvVars, uiVars>>

NextMain ==
    \/ CheckLegacy
    \/ CheckModern
    \/ ReadLegacy
    \/ ReadModern
    \/ CombineRows
    \/ FoldRow
    \/ WriteOutput

SpecMain == InitMain /\ [][NextMain]_vars

----------------------------------------------------------------------------
(* scripts/preprocess.js: parseCSV *)

MaxContentLen == 5      \* characters of the text given to parseCSV

\* the characters of the text: a letter, the comma, the double quote, the
\* space, carriage return and line feed
CsvChars == {"a", ",", "\"", " ", "\r", "\n"}
Contents == UNION {[1..n -> CsvChars] : n \in 0..MaxContentLen}

Whitespace == {" ", "\r", "\n"}

\* String.prototype.trim
RECURSIVE TrimStart(_)
TrimStart(s) ==
    IF s # <<>> /\ Head(s) \in Whitespace THEN TrimStart(Tail(s)) ELSE s

RECURSIVE TrimEnd(_)
TrimEnd(s) ==
    IF s # <<>> /\ s[Len(s)] \in Whitespace THEN TrimEnd(SubSeq(s, 1, Len(s) - 1)) ELSE s

trim(s) == TrimEnd(TrimStart(s))

\* content.split(/\r?\n/) from position i on; line is the line begun, acc
\* the lines before it
RECURSIVE SplitFrom(_, _, _, _)
SplitFrom(text, i, line, acc) ==
    IF i > Len(text) THEN Append(acc, line)
    ELSE IF text[i] = "\n" THEN SplitFrom(text, i + 1, <<>>, Append(acc, line))
    ELSE IF text[i] = "\r" /\ i + 1 <= Len(text) /\ text[i + 1] = "\n"
         THEN SplitFrom(text, i + 2, <<>>, Append(acc, line))
    ELSE SplitFrom(text, i + 1, Append(line, text[i]), acc)

split(text) == SplitFrom(text, 1, <<>>, <<>>)

\* variant: every comma ends a field, quoted or not
RECURSIVE ScanLineEveryComma(_, _, _, _, _)
ScanLineEveryComma(line, i, current, inQuotes, values) ==
    IF i > Len(line) THEN Append(values, trim(current))
    ELSE IF line[i] = "\""
         THEN IF inQuotes /\ i + 1 <= Len(line) /\ line[i + 1] = "\""
              THEN ScanLineEveryComma(line, i + 2, Append(current, "\""), inQuotes, values)
              ELSE ScanLineEveryComma(line, i + 1, current, ~inQuotes, values)
    ELSE IF line[i] = ","
         THEN ScanLineEveryComma(line, i + 1, <<>>, inQuotes,
                                 Append(values, trim(current)))
    ELSE ScanLineEveryComma(line, i + 1, Append(current, line[i]), inQuotes, values)

\* the loop of parseCSVLine from position i on (preprocess.js:300-317), and
\* the last push (preprocess.js:318)
RECURSIVE ScanLine(_, _, _, _, _)
ScanLine(line, i, current, inQuotes, values) ==
    IF i > Len(line) THEN Append(values, trim(current))
    ELSE IF line[i] = "\""
         THEN IF inQuotes /\ i + 1 <= Len(line) /\ line[i + 1] = "\""
              THEN ScanLine(line, i + 2, Append(current, "\""), inQuotes, values)
              ELSE ScanLine(line, i + 1, current, ~inQuotes, values)
    ELSE IF line[i] = "," /\ ~inQuotes
         THEN ScanLine(line, i + 1, <<>>, inQuotes, Append(values, trim(current)))
    ELSE ScanLine(line, i + 1, Append(current, line[i]), inQuotes, values)

parseCSVLine(line) == ScanLine(line, 1, <<>>, FALSE, <<>>)

\* row[headers[j]] = values[j] for j = 0, 1, ...: a later column of the same
\* name overwrites an earlier one
MakeRow(hs, values) ==
    [h \in {hs[j] : j \in 1..Len(hs)} |->
        values[SetMax({j \in 1..Len(hs) : hs[j] = h})]]

\* one iteration of the loop of parseCSV: the rows after it
ParsedLine(rs, hs, rawLine) ==
    LET line   == trim(rawLine)
        values == parseCSVLine(line)
    IN  IF line = <<>> THEN rs
        ELSE IF Len(values) # Len(hs) THEN rs
        ELSE Append(rs, MakeRow(hs, values))

PreIdle ==
    /\ legacyRows = <<>> /\ modernRows = <<>> /\ allRows = <<>>
    /\ rowIndex = 1 /\ casesMap = <<>> /\ justicesMap = <<>> /\ output = <<>>
    /\ legacyExists = TRUE /\ modernExists = TRUE /\ exitCode = NotExited

\* parseCSV is called with a text of the bounds
InitCsv ==
    /\ AppNotLoaded
    /\ PreIdle
    /\ pc = "parseCSV"
    /\ content \in Contents
    /\ lines = <<>>
    /\ headers = <<>>
    /\ lineIndex = 1
    /\ rows = <<>>

\* preprocess.js:269-273.  split gives at least one line, so the return of
\* preprocess.js:270 is never taken
SplitContent ==
    /\ pc = "parseCSV"
    /\ \E ls \in {split(content)} :
        /\ lines' = ls
        /\ headers' = parseCSVLine(ls[1])
    /\ rows' = <<>>
    /\ lineIndex' = 1
    /\ pc' = "lines"
    /\ UNCHANGED <<content, appVars, preVars, fsVars, uiVars>>

\* one iteration of for (let i = 1; i < lines.length; i++); lines[i] of
\* the code is lines[lineIndex + 1] here
ParseLine ==
    /\ pc = "lines"
    /\ lineIndex < Len(lines)
    /\ rows' = ParsedLine(rows, headers, lines[lineIndex + 1])
    /\ lineIndex' = lineIndex + 1
    /\ UNCHANGED <<pc, content, lines, headers, appVars, preVars, fsVars, uiVars>>

\* return rows
ReturnRows ==
    /\ pc = "lines"
    /\ lineIndex >= Len(lines)
    /\ pc' = "return"
    /\ UNCHANGED <<csvVars, appVars, preVars, fsVars, uiVars>>

NextCsv == SplitContent \/ ParseLine \/ ReturnRows

SpecCsv == InitCsv /\ [][NextCsv]_vars

----------------------------------------------------------------------------
(* scotus/app.js: the page.  init registers the handlers and then starts   *)
(* the load (app.js:1113-1119); the load ends, well or badly, between any  *)
(* two events.  index.html is not among the sources: the two sliders are   *)
(* taken to start at the window as declared (app.js:461-462), and a value  *)
(* assigned to a slider beyond its max stays (an input that keeps what it  *)
(* is given) or becomes the max (a range input): both are taken.           *)

\* the datasets that the page loads: those of the model in which every vote
\* is with the majority.  The handlers read the votes of a case for their
\* keys; the codes reach the cells of the matrix only.
PageDatasets ==
    {d \in Datasets :
        \A k \in 1..Len(d.cases) :
            \A j \in DOMAIN d.cases[k].votes : d.cases[k].votes[j] = 1}

\* the value that a range input with min lo and max hi takes when v is
\* assigned to it
Clamp(v, lo, hi) == IF v < lo THEN lo ELSE IF v > hi THEN hi ELSE v

\* the positions of a slider: from min to max as loadData sets them
\* (app.js:516-519), the terms of the model before that
SliderPositions ==
    IF data = <<>> THEN Terms ELSE data.metadata.minTerm..data.metadata.maxTerm

\* the values of the two sliders after the user has moved one of them to v
\* and updateSliders has put back the moved slider that passed the other
\* (app.js:993-1003)
SlidersAfter(which, v) ==
    LET start == IF which = "start" THEN v ELSE yearStartSlider
        end   == IF which = "end" THEN v ELSE yearEndSlider
    IN  IF start > end
        THEN IF which = "start"
             THEN [start |-> end, end |-> end]
             ELSE [start |-> start, end |-> start]
        ELSE [start |-> start, end |-> end]

\* variant: the selection is left as it is
KeepSelection(sel, inRange) == sel

\* the selection after the clean-up of updateSliders (app.js:1012-1024)
CleanUpSelection(sel, inRange) ==
    IF sel = AllJustices THEN sel
    ELSE LET kept == sel.ids \cap inRange
         IN  IF Cardinality(kept) = Cardinality(inRange)
             THEN AllJustices
             ELSE SetOf(kept)

\* the selection after handleJusticeToggle(justiceId, checked)
\* (app.js:636-655)
ToggledSelection(sel, allJustices, justiceId, checked) ==
    LET toggled ==
            IF checked
            THEN IF sel = AllJustices THEN sel ELSE SetOf(sel.ids \cup {justiceId})
            ELSE IF sel = AllJustices
                 THEN SetOf(allJustices \ {justiceId})
                 ELSE SetOf(sel.ids \ {justiceId})
    IN  IF toggled # AllJustices /\ Cardinality(toggled.ids) = Cardinality(allJustices)
        THEN AllJustices
        ELSE toggled

\* the texts of the threshold field: empty, 0, 1 and 2
MinCasesFields == {<<>>, <<"0">>, <<"1">>, <<"2">>}

\* isNaN(val) || val < 1 ? 1 : val (app.js:1092)
MinCasesOf(val) == IF isNaN(val) \/ val.val < 1 THEN 1 ELSE val.val

\* renderMatrix as a handler calls it: with data null the matrix element is
\* emptied (app.js:793) and data.cases of filterCases throws (app.js:543)
RenderOrThrow(d, ys, ye, sel, mc) ==
    IF d = <<>>
    THEN /\ matrixEl' = "blank"
         /\ UNCHANGED <<dropdownOptions, justices, matrix, colorScale>>
         /\ uncaught' = TRUE
    ELSE /\ Render(d, ys, ye, sel, mc)
         /\ uncaught' = FALSE

\* updateDropdownLabel(); renderMatrix(): with data null filterCases throws
\* in updateDropdownLabel (app.js:665) and nothing is rendered
LabelAndRender(d, ys, ye, sel, mc) ==
    IF d = <<>>
    THEN /\ UNCHANGED <<dropdownOptions, justices, matrix, colorScale, matrixEl>>
         /\ uncaught' = TRUE
    ELSE /\ Render(d, ys, ye, sel, mc)
         /\ uncaught' = FALSE

InitUi ==
    /\ AppNotLoaded
    /\ CsvIdle
    /\ PreIdle
    /\ pc = "idle"

\* the fetch succeeds (app.js:509-532)
LoadSucceeds ==
    /\ loadState = "loading"
    /\ \E d \in PageDatasets :
        /\ data' = d
        /\ yearStart' = DefaultYearStart
        /\ yearEnd' = d.metadata.maxTerm
        /\ yearStartSlider' \in {DefaultYearStart,
                                 Clamp(DefaultYearStart, d.metadata.minTerm,
                                       d.metadata.maxTerm)}
        /\ yearEndSlider' = d.metadata.maxTerm
        /\ Render(d, DefaultYearStart, d.metadata.maxTerm, selectedJustices, minCases)
    /\ loadState' = "loaded"
    /\ uncaught' = FALSE
    /\ lastEvent' = "load"
    /\ UNCHANGED <<selectedJustices, minCases, userSelection>>
    /\ UNCHANGED <<pc, preVars, csvVars, fsVars>>

\* the fetch fails or the response is not ok: the catch shows the error
\* text and data stays null (app.js:511, 533-536)
LoadFails ==
    /\ loadState = "loading"
    /\ loadState' = "failed"
    /\ lastEvent' = "load"
    /\ UNCHANGED <<appVars, yearStartSlider, yearEndSlider, uncaught, userSelection>>
    /\ UNCHANGED <<pc, preVars, csvVars, fsVars>>

\* the user moves a slider: updateSliders (app.js:992-1027)
SliderInput ==
    /\ \E which \in {"start", "end"} : \E v \in SliderPositions :
        /\ v # (IF which = "start" THEN yearStartSlider ELSE yearEndSlider)
        /\ \E r \in {SlidersAfter(which, v)} :
            /\ yearStartSlider' = r.start
            /\ yearEndSlider' = r.end
            /\ yearStart' = r.start
            /\ yearEnd' = r.end
            /\ IF data = <<>> /\ selectedJustices # AllJustices
               THEN /\ uncaught' = TRUE
                    /\ UNCHANGED <<selectedJustices, dropdownOptions, justices,
                                   matrix, colorScale, matrixEl>>
               ELSE \E sel \in {IF data = <<>> THEN selectedJustices
                                ELSE CleanUpSelection(selectedJustices,
                                        VotersOf(filterCases(data, r.start, r.end)))} :
                        /\ selectedJustices' = sel
                        /\ RenderOrThrow(data, r.start, r.end, sel, minCases)
    /\ lastEvent' = "slider"
    /\ UNCHANGED <<data, minCases, loadState, userSelection>>
    /\ UNCHANGED <<pc, preVars, csvVars, fsVars>>

\* the user clicks an option of the dropdown, which the last render has
\* listed: handleJusticeToggle runs with the state of the checkbox, from
\* its change listener or from the click listener of its row
\* (app.js:601, 617-622, 633-659).  Which state a click leaves the checkbox
\* in is the browser's matter: both are taken.  With "all" selected a
\* checked box returns before anything is rendered (app.js:637-639).
JusticeToggle ==
    /\ data # <<>>
    /\ \E k \in 1..Len(dropdownOptions) : \E checked \in BOOLEAN :
        IF checked /\ selectedJustices = AllJustices
        THEN /\ uncaught' = FALSE
             /\ lastEvent' = "toggleReturned"
             /\ UNCHANGED <<selectedJustices, userSelection, dropdownOptions,
                            justices, matrix, colorScale, matrixEl>>
        ELSE \E sel \in {ToggledSelection(selectedJustices,
                              VotersOf(filterCases(data, yearStart, yearEnd)),
                              dropdownOptions[k], checked)} :
                /\ selectedJustices' = sel
                /\ userSelection' = sel
                /\ LabelAndRender(data, yearStart, yearEnd, sel, minCases)
                /\ lastEvent' = "toggle"
    /\ UNCHANGED <<data, yearStart, yearEnd, minCases>>
    /\ UNCHANGED <<loadState, yearStartSlider, yearEndSlider>>
    /\ UNCHANGED <<pc, preVars, csvVars, fsVars>>

\* app.js:1064-1072
SelectAll ==
    /\ selectedJustices' = AllJustices
    /\ userSelection' = AllJustices
    /\ LabelAndRender(data, yearStart, yearEnd, AllJustices, minCases)
    /\ lastEvent' = "selectAll"
    /\ UNCHANGED <<data, yearStart, yearEnd, minCases>>
    /\ UNCHANGED <<loadState, yearStartSlider, yearEndSlider>>
    /\ UNCHANGED <<pc, preVars, csvVars, fsVars>>

\* app.js:1074-1083
ClearAll ==
    /\ selectedJustices' = SetOf({})
    /\ userSelection' = SetOf({})
    /\ LabelAndRender(data, yearStart, yearEnd, SetOf({}), minCases)
    /\ lastEvent' = "clearAll"
    /\ UNCHANGED <<data, yearStart, yearEnd, minCases>>
    /\ UNCHANGED <<loadState, yearStartSlider, yearEndSlider>>
    /\ UNCHANGED <<pc, preVars, csvVars, fsVars>>

\* the user edits the threshold field (app.js:1090-1094)
MinCasesInput ==
    /\ \E field \in MinCasesFields : \E mc \in {MinCasesOf(parseInt(field))} :
        /\ minCases' = mc
        /\ RenderOrThrow(data, yearStart, yearEnd, selectedJustices, mc)
    /\ lastEvent' = "minCases"
    /\ UNCHANGED <<data, yearStart, yearEnd, selectedJustices>>
    /\ UNCHANGED <<loadState, yearStartSlider, yearEndSlider, userSelection>>
    /\ UNCHANGED <<pc, preVars, csvVars, fsVars>>

\* the timer of the resize handler fires: if (data) renderMatrix()
\* (app.js:1102-1107)
Resize ==
    /\ IF data = <<>>
       THEN UNCHANGED <<dropdownOptions, justices, matrix, colorScale, matrixEl, uncaught>>
       ELSE RenderOrThrow(data, yearStart, yearEnd, selectedJustices, minCases)
    /\ lastEvent' = "resize"
    /\ UNCHANGED <<data, yearStart, yearEnd, selectedJustices, minCases>>
    /\ UNCHANGED <<loadState, yearStartSlider, yearEndSlider, userSelection>>
    /\ UNCHANGED <<pc, preVars, csvVars, fsVars>>

NextUi ==
    \/ LoadSucceeds
    \/ LoadFails
    \/ SliderInput
    \/ JusticeToggle
    \/ SelectAll
    \/ ClearAll
    \/ MinCasesInput
    \/ Resize

SpecUi == InitUi /\ [][NextUi]_vars

----------------------------------------------------------------------------
(* Vocabulary of the properties, stated on the state and independent of   *)
(* the engine's operators.                                                 *)

Rendered == matrixEl # "blank"
N == Len(justices)
Active == {justices[k] : k \in 1..N}

\* indices of the cases with yearStart <= term <= yearEnd
WindowCases ==
    {k \in 1..Len(data.cases) :
        yearStart <= data.cases[k].term /\ data.cases[k].term <= yearEnd}

\* the justices with a vote in at least one case of the window
WindowJustices == UNION {DOMAIN data.cases[k].votes : k \in WindowCases}

\* the cases of the window in which both a and b have a vote
SharedCases(a, b) ==
    {k \in WindowCases : {a, b} \subseteq DOMAIN data.cases[k].votes}

AgreedCases(a, b) ==
    {k \in SharedCases(a, b) : data.cases[k].votes[a] = data.cases[k].votes[b]}

----------------------------------------------------------------------------
\* C1: the matrix is symmetric: for every pair of active members i, j the
\* cells (i,j) and (j,i) have the same agreed and the same total.
C1_Symmetric ==
    Rendered =>
        \A i \in 1..N, j \in 1..N :
            /\ matrix[i][j].agreed = matrix[j][i].agreed
            /\ matrix[i][j].total = matrix[j][i].total

\* a pair of distinct active members that shares a case and disagrees in one
C1_Witness ==
    /\ Rendered
    /\ \E i \in 1..N, j \in 1..N :
        i # j /\ matrix[i][j].total > matrix[i][j].agreed /\ matrix[i][j].agreed > 0

\* C2: for every pair of distinct active members, total is the number of
\* cases of the window in which both have a vote, and agreed the number of
\* those in which their codes are equal.
C2_PairCounts ==
    Rendered =>
        \A i \in 1..N, j \in 1..N :
            i # j =>
                /\ matrix[i][j].total = Cardinality(SharedCases(justices[i], justices[j]))
                /\ matrix[i][j].agreed = Cardinality(AgreedCases(justices[i], justices[j]))

\* the example of the specification: two shared cases, agreement in one, rate 1/2
C2_Witness ==
    /\ Rendered
    /\ \E i \in 1..N, j \in 1..N :
        /\ i # j
        /\ matrix[i][j].total = 2
        /\ matrix[i][j].agreed = 1
        /\ RateEq(matrix[i][j].rate, Rate(1, 2))

\* C3: no member is counted with itself: every diagonal cell has total 0,
\* agreed 0 and no rate.
C3_NoSelfPairs ==
    Rendered =>
        \A i \in 1..N :
            /\ matrix[i][i].total = 0
            /\ matrix[i][i].agreed = 0
            /\ matrix[i][i].rate = Null

\* C4: in every cell the rate is null exactly when total = 0, and otherwise
\* 0 <= agreed <= total and the rate is agreed / total, within [0, 1].
C4_RateDefined ==
    Rendered =>
        \A i \in 1..N, j \in 1..N :
            LET cell == matrix[i][j]
            IN  /\ (cell.rate = Null) <=> (cell.total = 0)
                /\ cell.total >= 0
                /\ cell.total > 0 =>
                    /\ 0 <= cell.agreed /\ cell.agreed <= cell.total
                    /\ cell.rate.den > 0
                    /\ RateEq(cell.rate, Rate(cell.agreed, cell.total))
                    /\ RateLeq(Rate(0, 1), cell.rate)
                    /\ RateLeq(cell.rate, Rate(1, 1))

\* one matrix with a cell without data (rate null) and a cell with data and
\* no agreement (rate 0)
C4_Witness ==
    /\ Rendered
    /\ \E i \in 1..N, j \in 1..N :
        matrix[i][j].total = 0 /\ matrix[i][j].rate = Null
    /\ \E i \in 1..N, j \in 1..N :
        matrix[i][j].total > 0 /\ RateEq(matrix[i][j].rate, Rate(0, 1))

\* C5: the active members are exactly the members with a vote in a case of
\* the window, intersected with the selection unless it is "all"; every
\* member is listed once, whatever is selected.
C5_ActiveMembers ==
    Rendered =>
        /\ Active = IF selectedJustices.isNull THEN WindowJustices
                    ELSE WindowJustices \cap selectedJustices.ids
        /\ Cardinality(Active) = N

\* a selection naming a member of the dataset that has no vote in the window,
\* beside members that have
C5_Witness ==
    /\ Rendered
    /\ ~selectedJustices.isNull
    /\ \E j \in selectedJustices.ids :
        j \in DOMAIN data.justices /\ j \notin WindowJustices
    /\ N >= 1
    /\ WindowJustices \ selectedJustices.ids # {}

----------------------------------------------------------------------------
\* case-insensitive lexical order of two strings: negative, zero or positive
CompareIgnoringCase(a, b) ==
    CompareWeights(PrimaryWeights(a), PrimaryWeights(b), 1)

\* C6: the active members are in ascending order of first-active period, and
\* members of equal first-active period are in case-insensitive lexical
\* order of their display names.
C6_OrderedByDisplayName ==
    Rendered =>
        \A i \in 1..N, k \in 1..N :
            i < k =>
                LET a == data.justices[justices[i]]
                    b == data.justices[justices[k]]
                IN  \/ a.firstTerm < b.firstTerm
                    \/ /\ a.firstTerm = b.firstTerm
                       /\ CompareIgnoringCase(a.name, b.name) < 0

\* the cells the scale range is taken over: off the diagonal, with a rate,
\* with at least minCases cases
Qualifying ==
    {c \in (1..N) \X (1..N) :
        /\ c[1] # c[2]
        /\ matrix[c[1]][c[2]].total > 0
        /\ matrix[c[1]][c[2]].total >= minCases}

\* C7: when no off-diagonal cell qualifies for the scale range, no numeric
\* range is produced and used for colouring: nothing is drawn with the
\* colour scale, and the colour scale is left as it was.
C7_EmptyRangeReported ==
    (Rendered /\ Qualifying = {}) =>
        /\ matrixEl # "svg"
        /\ colorScale = DefaultScale

\* C8: when some off-diagonal cell has a rate and total >= minCases, the
\* minimum of the scale range is the smallest and its maximum the largest
\* rate among exactly those cells, and min <= max.
C8_ScaleRange ==
    (Rendered /\ Qualifying # {}) =>
        LET minRate == colorScale[1]
            maxRate == colorScale[2]
            rates == {matrix[c[1]][c[2]].rate : c \in Qualifying}
        IN  /\ \E r \in rates : RateEq(r, minRate)
            /\ \A r \in rates : RateLeq(minRate, r)
            /\ \E r \in rates : RateEq(r, maxRate)
            /\ \A r \in rates : RateLeq(r, maxRate)
            /\ RateLeq(minRate, maxRate)

\* a range with min < max < 1, in a matrix whose diagonal cells have rate 1
C8_Witness ==
    /\ Rendered
    /\ Qualifying # {}
    /\ RateLess(colorScale[1], colorScale[2])
    /\ RateLess(colorScale[2], Rate(1, 1))

\* C9: a window without cases gives no active member and an empty matrix,
\* and the render completes, showing its message.
C9_EmptyWindow ==
    (Rendered /\ WindowCases = {}) =>
        /\ justices = <<>>
        /\ matrix = <<>>
        /\ dropdownOptions = <<>>
        /\ matrixEl = "message"

\* a valid window (yearStart <= yearEnd) of a dataset with cases, none in it
C9_Witness ==
    /\ Rendered
    /\ yearStart <= yearEnd
    /\ Len(data.cases) > 0
    /\ WindowCases = {}

\* C10: under a selection S, every cell of two members of S has the total
\* and the agreed count that the same pair has in the matrix of the
\* selection "all" over the same window.
C10_SubsetCounts ==
    Rendered =>
        \A cases \in {SelectSeq(data.cases,
                        LAMBDA c : yearStart <= c.term /\ c.term <= yearEnd)} :
        \A everyone \in {getActiveJustices(data, cases, AllJustices)} :
        \A unfiltered \in {calculateConcurrence(cases, everyone)} :
            \A i \in 1..N, j \in 1..N :
                \E a \in 1..Len(everyone), b \in 1..Len(everyone) :
                    /\ everyone[a] = justices[i]
                    /\ everyone[b] = justices[j]
                    /\ matrix[i][j].total <= unfiltered[a][b].total
                    /\ matrix[i][j].total = unfiltered[a][b].total
                    /\ matrix[i][j].agreed = unfiltered[a][b].agreed

\* a selection of two of three members of the window, who share a case
C10_Witness ==
    /\ Rendered
    /\ ~selectedJustices.isNull
    /\ N = 2
    /\ Cardinality(WindowJustices) = 3
    /\ matrix[1][2].total > 0

----------------------------------------------------------------------------
----------------------------------------------------------------------------
(* Vocabulary of the properties of scripts/preprocess.js, stated on the    *)
(* rows of the two sources.                                                *)

\* the rows in input order: those of the legacy source, then those of the modern
NumInput == Len(legacyRows) + Len(modernRows)
InputRow(i) ==
    IF i <= Len(legacyRows) THEN legacyRows[i] ELSE modernRows[i - Len(legacyRows)]

Folding == pc \in {"processData", "done"}
\* the rows that the loop of processData has dealt with
Folded == IF Folding THEN 1..(rowIndex - 1) ELSE {}

TermOf(row) == parseInt(row.term)
CodeOf(row) == parseInt(row.majority)

\* a row that processData takes: both identifiers are there, the term reads
\* as a number and the majority reads as one of the two codes
RowAccepted(row) ==
    /\ row.caseId # <<>>
    /\ row.justiceName # <<>>
    /\ ~isNaN(TermOf(row))
    /\ CodeOf(row) \in {Num(c) : c \in Codes}

\* the accepted rows among the first n that name the case, the justice, or both
RowsOfCase(n, caseId) ==
    {i \in 1..n : InputRow(i).caseId = caseId /\ RowAccepted(InputRow(i))}
RowsOfJustice(n, justiceName) ==
    {i \in 1..n : InputRow(i).justiceName = justiceName /\ RowAccepted(InputRow(i))}
RowsOfVote(n, caseId, justiceName) ==
    {i \in 1..n : /\ InputRow(i).caseId = caseId
                  /\ InputRow(i).justiceName = justiceName
                  /\ RowAccepted(InputRow(i))}

\* the row that the loop of processData is about to deal with
AtRow == pc = "processData" /\ rowIndex <= Len(allRows)

C13_ExactCodesOnly ==
    [][(AtRow /\ allRows[rowIndex].majority \notin {<<"1">>, <<"2">>}) =>
          (casesMap' = casesMap /\ justicesMap' = justicesMap)]_vars

\* C14: the vote of a justice in a case of the output is the code of the
\* last accepted row for that case and justice in input order, the legacy
\* rows before the modern ones; the output has exactly the votes for which
\* there is such a row.
C14_LastVoteWins ==
    pc = "done" =>
        /\ \A k \in 1..Len(output.cases) :
            \A j \in DOMAIN output.cases[k].votes :
                \A named \in {RowsOfVote(NumInput, output.cases[k].id, j)} :
                    /\ named # {}
                    /\ output.cases[k].votes[j] = CodeOf(InputRow(SetMax(named))).val
        /\ \A i \in 1..NumInput :
            RowAccepted(InputRow(i)) =>
                \E k \in 1..Len(output.cases) :
                    /\ output.cases[k].id = InputRow(i).caseId
                    /\ InputRow(i).justiceName \in DOMAIN output.cases[k].votes

\* a legacy row and a modern row for one case and justice, with different codes
C14_Witness ==
    /\ pc = "done"
    /\ Len(legacyRows) = 1 /\ Len(modernRows) = 1
    /\ RowAccepted(legacyRows[1]) /\ RowAccepted(modernRows[1])
    /\ legacyRows[1].caseId = modernRows[1].caseId
    /\ legacyRows[1].justiceName = modernRows[1].justiceName
    /\ CodeOf(legacyRows[1]).val = 1 /\ CodeOf(modernRows[1]).val = 2
    /\ output.cases[1].votes[modernRows[1].justiceName] = 2

\* C15: the term of a case is the term of the first accepted row with its
\* id; no later row changes it, and it is the term of the case in the output.
C15_FirstTermKept ==
    /\ Folding =>
        \A k \in 1..Len(casesMap) :
            \A named \in {RowsOfCase(rowIndex - 1, casesMap[k].id)} :
                /\ named # {}
                /\ casesMap[k].term = TermOf(InputRow(SetMin(named))).val
    /\ pc = "done" =>
        \A k \in 1..Len(output.cases) :
            \A named \in {RowsOfCase(NumInput, output.cases[k].id)} :
                /\ named # {}
                /\ output.cases[k].term = TermOf(InputRow(SetMin(named))).val

\* two accepted rows of one case with different terms have been folded
C15_Witness ==
    /\ Folding
    /\ rowIndex = 3
    /\ RowAccepted(allRows[1]) /\ RowAccepted(allRows[2])
    /\ allRows[1].caseId = allRows[2].caseId
    /\ TermOf(allRows[1]).val # TermOf(allRows[2]).val
    /\ Len(casesMap) = 1

\* C16: after every folded row the justices of the map are those that an
\* accepted row so far names, the firstTerm of each is the least and the
\* lastTerm the greatest term of these rows, and firstTerm <= lastTerm.
C16_TermRange ==
    Folding =>
        \A accepted \in {{i \in Folded : RowAccepted(InputRow(i))}} :
            /\ DOMAIN justicesMap = {InputRow(i).justiceName : i \in accepted}
            /\ \A j \in DOMAIN justicesMap :
                \A terms \in {{TermOf(InputRow(i)).val :
                                  i \in {x \in accepted : InputRow(x).justiceName = j}}} :
                    /\ justicesMap[j].firstTerm = SetMin(terms)
                    /\ justicesMap[j].lastTerm = SetMax(terms)
                    /\ justicesMap[j].firstTerm <= justicesMap[j].lastTerm

\* a justice whose second row has the earlier term: firstTerm < lastTerm
C16_Witness ==
    /\ Folding
    /\ rowIndex = 3
    /\ \E j \in DOMAIN justicesMap :
        /\ allRows[1].justiceName = j /\ allRows[2].justiceName = j
        /\ justicesMap[j].firstTerm = TermOf(allRows[2]).val
        /\ justicesMap[j].firstTerm < justicesMap[j].lastTerm

\* C17: after every folded row and in the output, every justice with a vote
\* in a case is a key of the map of justices, and every case has a vote.
C17_VotesReferToJustices ==
    /\ Folding =>
        \A k \in 1..Len(casesMap) :
            /\ DOMAIN casesMap[k].votes # {}
            /\ DOMAIN casesMap[k].votes \subseteq DOMAIN justicesMap
    /\ pc = "done" =>
        \A k \in 1..Len(output.cases) :
            /\ DOMAIN output.cases[k].votes # {}
            /\ DOMAIN output.cases[k].votes \subseteq DOMAIN output.justices

\* one case with the votes of two justices, each recorded
C17_Witness ==
    /\ pc = "done"
    /\ Len(output.cases) = 1
    /\ Cardinality(DOMAIN output.cases[1].votes) = 2
    /\ Cardinality(DOMAIN output.justices) = 2

\* C18: the cases of the output are in ascending order of term, and cases of
\* the same term are in the order in which their ids first occur in an
\* accepted row.
C18_SortedStable ==
    pc = "done" =>
        \A a \in 1..Len(output.cases), b \in 1..Len(output.cases) :
            a < b =>
                \/ output.cases[a].term < output.cases[b].term
                \/ /\ output.cases[a].term = output.cases[b].term
                   /\ SetMin(RowsOfCase(NumInput, output.cases[a].id))
                        < SetMin(RowsOfCase(NumInput, output.cases[b].id))

\* two cases of one term, the one with the greater id first in the input
C18_Witness ==
    /\ pc = "done"
    /\ Len(output.cases) = 2
    /\ output.cases[1].term = output.cases[2].term
    /\ output.cases[1].id = <<"c", "2">>
    /\ output.cases[2].id = <<"c", "1">>

\* C19: wherever a sequence of rows is cut into the two sources, the output
\* is the output for the same rows given as one source: the same cases,
\* terms, votes, justices and order of cases.
C19_SplitInvariant ==
    pc = "done" =>
        output = Canonicalize([i \in 1..NumInput |-> InputRow(i)], <<>>)

\* the example of the specification: two rows, one in each source, with an output
C19_Witness ==
    /\ pc = "done"
    /\ Len(legacyRows) = 1 /\ Len(modernRows) = 1
    /\ legacyRows[1] # modernRows[1]
    /\ RowAccepted(legacyRows[1]) /\ RowAccepted(modernRows[1])
    /\ Len(output.cases) >= 1

----------------------------------------------------------------------------
(* Vocabulary of the properties of parseCSV, stated on the lines of the text *)

Blank(line) == \A k \in 1..Len(line) : line[k] \in Whitespace

\* a character is outside double quotes when an even number of double
\* quotes comes before it
OutsideQuotes(line, k) ==
    Cardinality({q \in 1..(k - 1) : line[q] = "\""}) % 2 = 0

\* one field more than there are commas outside double quotes
FieldCount(line) ==
    1 + Cardinality({k \in 1..Len(line) : line[k] = "," /\ OutsideQuotes(line, k)})

\* the data lines (positions in lines) that are not blank and have as many
\* fields as the header
GoodLines ==
    {i \in 2..Len(lines) : ~Blank(lines[i]) /\ FieldCount(lines[i]) = FieldCount(lines[1])}

\* the good lines in the order of the text
RECURSIVE InOrder(_)
InOrder(S) ==
    IF S = {} THEN <<>> ELSE <<SetMin(S)>> \o InOrder(S \ {SetMin(S)})

\* C20: parseCSV returns one record for each data line that is not blank and
\* has as many fields (commas outside double quotes separate fields) as the
\* header, in the order of the lines, each made of that line alone; blank
\* lines and lines with another number of fields give nothing and do not
\* change the records of the other lines.
C20_OneRecordPerGoodLine ==
    pc = "return" =>
        \A good \in {InOrder(GoodLines)} :
            /\ Len(rows) = Len(good)
            /\ \A n \in 1..Len(good) :
                rows[n] = MakeRow(parseCSVLine(lines[1]),
                                  parseCSVLine(trim(lines[good[n]])))

\* a line with another number of fields than the header, between the header
\* and a line that gives a record
C20_Witness ==
    /\ pc = "return"
    /\ Len(rows) = 1
    /\ \E i \in 2..Len(lines), k \in GoodLines :
        /\ i < k
        /\ ~Blank(lines[i])
        /\ FieldCount(lines[i]) # FieldCount(lines[1])

----------------------------------------------------------------------------
(* The two paths of scripts/preprocess.js.                                 *)

\* C21: if one of the two paths does not exist, no step of the script
\* reads or processes a source or touches the output file, and the script
\* can only go on to exit with status 1: the legacy path is checked first,
\* the modern path is reached only if the legacy file exists.
C21_MissingPathExits ==
    [][(~legacyExists \/ ~modernExists) =>
          /\ output' = output
          /\ legacyRows' = <<>> /\ modernRows' = <<>> /\ allRows' = <<>>
          /\ casesMap' = <<>> /\ justicesMap' = <<>>
          /\ pc' \in {"checkModern", "exited"}
          /\ pc' = "checkModern" => (legacyExists /\ exitCode' = NotExited)
          /\ pc' = "exited" => exitCode' = 1]_vars

\* the modern path is missing and an output file of an earlier run is
\* there: the script has exited with status 1 and the file is as it was
C21_Witness ==
    /\ pc = "exited"
    /\ legacyExists /\ ~modernExists
    /\ exitCode = 1
    /\ output = PreviousOutput


----------------------------------------------------------------------------
(* The page: the load and the handlers.                                    *)

Loaded == data # <<>>

\* the handler that ran last has called renderMatrix: loadData after a
\* fetch that succeeded, updateSliders unless its clean-up threw, the
\* handlers of the dropdown and of the two buttons unless
\* updateDropdownLabel threw, the handler of the threshold, and the timer
\* of the resize if data is set
RenderMatrixCalled ==
    \/ lastEvent = "load" /\ loadState = "loaded"
    \/ lastEvent = "slider" /\ (Loaded \/ selectedJustices = AllJustices)
    \/ lastEvent \in {"toggle", "selectAll", "clearAll", "resize"} /\ Loaded
    \/ lastEvent = "minCases"

\* C22: whenever a handler has called renderMatrix (after the load and
\* after a slider, selection, threshold or resize event, for every dataset
\* loaded), yearStart <= yearEnd.
C22_ValidRange == RenderMatrixCalled => yearStart <= yearEnd

\* C23: in no interleaving of the load, failed or not, with the events of
\* the page does a handler run renderMatrix or filterCases while data is
\* null.
C23_NeverWithoutData == ~uncaught

\* C24: if the dropdown or a button has left an explicit selection S and
\* only sliders (and the threshold or a resize) have been moved since, the
\* active justices after a slider event are all members of S.
C24_SlidersKeepDeselected ==
    (lastEvent = "slider" /\ Loaded /\ ~userSelection.isNull) =>
        Active \subseteq userSelection.ids

\* C25: after every handler, an explicit selection holds only justices
\* with a vote in a case of the window from yearStart to yearEnd.
C25_SelectionInWindow ==
    ~selectedJustices.isNull =>
        selectedJustices.ids \subseteq (IF Loaded THEN WindowJustices ELSE {})

\* a slider has taken a selected justice out of the window and out of the
\* selection, and the selection is still explicit and not empty
C25_Witness ==
    /\ lastEvent = "slider"
    /\ Loaded
    /\ ~userSelection.isNull
    /\ ~selectedJustices.isNull
    /\ selectedJustices.ids # {}
    /\ selectedJustices.ids # userSelection.ids

----------------------------------------------------------------------------
(* The term of a case against the terms of the justices that vote in it.   *)

\* the term of a case of the output lies between the firstTerm and the
\* lastTerm of every justice with a vote in it
TermsWithinService ==
    \A k \in 1..Len(output.cases) :
        \A j \in DOMAIN output.cases[k].votes :
            /\ j \in DOMAIN output.justices
            /\ output.justices[j].firstTerm <= output.cases[k].term
            /\ output.cases[k].term <= output.justices[j].lastTerm

\* the accepted rows of one case all carry one term
OneTermPerCase ==
    \A accepted \in {{i \in 1..NumInput : RowAccepted(InputRow(i))}} :
        \A a \in accepted : \A b \in accepted :
            InputRow(a).caseId = InputRow(b).caseId =>
                TermOf(InputRow(a)) = TermOf(InputRow(b))

\* C26 as stated: for every sequence of input rows, the term of every case
\* of the output lies within [firstTerm, lastTerm] of every justice with a
\* vote in that case.
C26_TermWithinService == pc = "done" => TermsWithinService

\* C26 as amended: for every sequence of input rows whose accepted rows
\* carry one term per case, the term of every case of the output lies
\* within [firstTerm, lastTerm] of every justice with a vote in that case.
C26_TermWithinServiceOneTerm == (pc = "done" /\ OneTermPerCase) => TermsWithinService

\* a justice votes in two cases of different terms, each case with one term
C26_Witness ==
    /\ pc = "done"
    /\ OneTermPerCase
    /\ Len(output.cases) = 2
    /\ output.cases[1].term < output.cases[2].term
    /\ \E j \in DOMAIN output.justices :
        /\ j \in DOMAIN output.cases[1].votes
        /\ j \in DOMAIN output.cases[2].votes
        /\ output.justices[j].firstTerm = output.cases[1].term
        /\ output.justices[j].lastTerm = output.cases[2].term

============================================================================
